---------------------------- MODULE Spec2Model ----------------------------
(***************************************************************************)
(* A model of CytoPy's population merge (CytoPy/data/populations.py), of   *)
(* the batch-effect divergence cache (cytopy/flow/batch_effects.py), of    *)
(* the numerical functions behind it (cytopy/flow/utilities.py) and of     *)
(* Normalise (immunova/flow/normalisation/normalise.py).                   *)
(*                                                                         *)
(* Five specifications share the module's variables:                       *)
(*   Spec       merge_populations / merge_multiple_populations applied to  *)
(*              argument lists drawn in Init;                              *)
(*   SpecBatch  one EvaluateBatchEffects session: load_data,               *)
(*              calc_divergence, divergence_matrix, divergence_barplot and *)
(*              the plotting methods, each call one step;                  *)
(*   SpecPool   the calls of calc_divergence of one session, each divided  *)
(*              into the steps of the coordinating process and of the      *)
(*              worker processes of its pool;                              *)
(*   SpecFn     one call of jsd_divergence, kl_divergence, hellinger_dot   *)
(*              or kde_multivariant on arrays drawn in InitFn;             *)
(*   SpecNorm   one Normalise object: load_model,                          *)
(*              calculate_reference_sample, calibrate, normalise_and_save. *)
(* Under each specification the other components' variables keep their     *)
(* initial value.                                                          *)
(***************************************************************************)
EXTENDS Integers, Sequences, FiniteSets

VARIABLES
    populations,  \* the Population objects passed to the call, as they are now
    pre,          \* the same objects as they were when the call was made
    call,         \* "none" before the call, then the function that was called
    new_name,     \* the new_population_name argument of the call
    ret,          \* the returned Population, NoPopulation if none was returned
    error,        \* NoError, or the message of the exception that ended the call
    warned,       \* the messages passed to warn() during the call, in order
    session,      \* the EvaluateBatchEffects object and the last call on it
    pool,         \* the process pool of the calc_divergence call in progress
    fn,           \* the arguments and the outcome of a call of a numerical function
    normalise     \* the Normalise object and the last call on it

mergeVars == <<populations, pre, call, new_name, ret, error, warned>>
\* the variables of the components that a session's methods do not touch
otherVars == <<populations, pre, call, new_name, ret, error, warned, fn, normalise>>
vars == <<populations, pre, call, new_name, ret, error, warned, session, pool, fn, normalise>>

----------------------------------------------------------------------------
(* Bounds of the model. *)

\* event identifiers are 1..MaxId
MaxId == 3
\* an argument pair differs from a reference pair in at most MaxDiff attributes
MaxDiff == 3
\* merge_multiple_populations is given lists of at most MaxPops populations
MaxPops == 3

----------------------------------------------------------------------------
(* Python values. *)

\* None where a string is expected (population_name, definition, the name argument)
None == "None"
\* None where a Population is expected
NoPopulation == [none |-> TRUE]
NoError == "no error"

\* truth value of an optional string: None and "" are falsy
Truthy(s) == s # None /\ s # ""
\* a or b
Or(a, b) == IF Truthy(a) THEN a ELSE b
\* str(s) inside an f-string
Str(s) == s

Range(s) == {s[i] : i \in 1..Len(s)}

RECURSIVE SortedSeq(_)
\* the elements of a finite set of numbers in increasing order
SortedSeq(S) ==
    IF S = {} THEN <<>>
    ELSE LET m == CHOOSE x \in S : \A y \in S : x <= y
         IN  <<m>> \o SortedSeq(S \ {m})

\* np.concatenate([a, b], axis=0)
np_concatenate(a, b) == a \o b
\* np.unique(a, axis=0) of a one-dimensional array: sorted, duplicates removed
np_unique(a) == SortedSeq(Range(a))

----------------------------------------------------------------------------
(* Geometries (CytoPy.data.geometry) and the spatial library.  A polygon's  *)
(* shape is the set of unit cells it covers.                                *)

ThresholdGeom(x, y, transform_x, transform_y, x_threshold, y_threshold) ==
    [type |-> "ThresholdGeom", x |-> x, y |-> y,
     transform_x |-> transform_x, transform_y |-> transform_y,
     x_threshold |-> x_threshold, y_threshold |-> y_threshold]

PolygonGeom(x, y, transform_x, transform_y, shape) ==
    [type |-> "PolygonGeom", x |-> x, y |-> y,
     transform_x |-> transform_x, transform_y |-> transform_y,
     shape |-> shape]

\* shapely: a.intersects(b)
Intersects(a, b) == a \cap b # {}
\* shapely: unary_union([a, b]), of which the exterior ring is kept
unary_union(a, b) == a \cup b

----------------------------------------------------------------------------
(* Population records. prop_of_parent, prop_of_total and signature are not  *)
(* read by any check of a merge and are left out of the record.             *)

\* Population(**kwargs): index is stored as given, n is the keyword's value,
\* clusters and ctrl_index take their defaults
Population(population_name, n, parent, warnings, index, geom, definition) ==
    [population_name |-> population_name,
     n |-> n,
     parent |-> parent,
     warnings |-> warnings,
     geom |-> geom,
     clusters |-> <<>>,
     definition |-> definition,
     index |-> index,
     ctrl_index |-> {}]

\* the index setter: p.index = idx
SetIndex(p, idx) == [p EXCEPT !.n = Len(idx), !.index = idx]


----------------------------------------------------------------------------
(* The merge functions.  Each is an operator from its arguments to the      *)
(* outcome of the call: the exception that ended it (NoError if none), the  *)
(* returned Population, the left argument as the call leaves it, and the    *)
(* messages it passed to warn().  The right argument is never assigned to.  *)

Outcome(err, r, left, w) == [error |-> err, ret |-> r, left |-> left, warned |-> w]
Raise(err, left, w) == Outcome(err, NoPopulation, left, w)

ClustersVoid == "Associated clusters are now void. Repeat clustering on new population"
CtrlIndexVoid == "Associated control indexes are now void. Repeat control gating on new population"
MergedMarker == "MERGED POPULATION"

\* variant of _check_overlap whose overlap assertion is never made
_check_overlap_unasserted(left, right, err) ==
    IF left.geom.type # "PolygonGeom" \/ right.geom.type # "PolygonGeom"
    THEN "Only Polygon geometries can be checked for overlap"
    ELSE NoError

\* _check_overlap(left, right, error): the exception raised (NoError if none)
_check_overlap(left, right, err) ==
    IF left.geom.type # "PolygonGeom" \/ right.geom.type # "PolygonGeom"
    THEN "Only Polygon geometries can be checked for overlap"
    ELSE IF err /\ ~Intersects(left.geom.shape, right.geom.shape)
    THEN "Invalid: non-overlapping populations"
    ELSE NoError

\* variant of _check_transforms_dimensions that does not compare the y axes
_check_transforms_dimensions_no_y(left, right) ==
    IF left.geom.transform_x # right.geom.transform_x
    THEN "X dimension transform differs between left and right populations"
    ELSE IF left.geom.transform_y # right.geom.transform_y
    THEN "Y dimension transform differs between left and right populations"
    ELSE IF left.geom.x # right.geom.x
    THEN "X dimension differs between left and right populations"
    ELSE NoError

\* _check_transforms_dimensions(left, right): the first assertion that fails
_check_transforms_dimensions(left, right) ==
    IF left.geom.transform_x # right.geom.transform_x
    THEN "X dimension transform differs between left and right populations"
    ELSE IF left.geom.transform_y # right.geom.transform_y
    THEN "Y dimension transform differs between left and right populations"
    ELSE IF left.geom.x # right.geom.x
    THEN "X dimension differs between left and right populations"
    ELSE IF left.geom.y # right.geom.y
    THEN "Y dimension differs between left and right populations"
    ELSE NoError

\* variant of _merge_index that keeps the duplicates
_merge_index_concatenated(left, right) == np_concatenate(left.index, right.index)

_merge_index(left, right) == np_unique(np_concatenate(left.index, right.index))

\* ",".join([a, b]): a TypeError when an item is None
JoinFails(a, b) == a = None \/ b = None
Join(a, b) == a \o "," \o b

\* variant of _threshold_asserts that compares the x thresholds only
_threshold_asserts_x_only(left, right) ==
    IF left.geom.x_threshold # right.geom.x_threshold
    THEN "X threshold should match between populations"
    ELSE NoError

\* the two assertions that open _merge_thresholds: the first that fails
_threshold_asserts(left, right) ==
    IF left.geom.x_threshold # right.geom.x_threshold
    THEN "X threshold should match between populations"
    ELSE IF left.geom.y_threshold # right.geom.y_threshold
    THEN "Y threshold should match between populations"
    ELSE NoError

_merge_thresholds(left, right, new_population_name) ==
    IF _threshold_asserts(left, right) # NoError
    THEN Raise(_threshold_asserts(left, right), left, <<>>)
    ELSE
    LET void == left.clusters # <<>> \/ right.clusters # <<>>
        \* left.clusters, right_clusters = [], []
        left1 == IF void THEN [left EXCEPT !.clusters = <<>>] ELSE left
        w1 == IF void THEN <<ClustersVoid>> ELSE <<>>
        w2 == IF left1.ctrl_index # {} \/ right.ctrl_index # {}
              THEN <<CtrlIndexVoid>> ELSE <<>>
        new_geom == ThresholdGeom(left1.geom.x, left1.geom.y,
                                  left1.geom.transform_x, left1.geom.transform_y,
                                  left1.geom.x_threshold, left1.geom.y_threshold)
    IN  IF JoinFails(left1.definition, right.definition)
        THEN Raise("TypeError: sequence item: expected str instance", left1, w1 \o w2)
        ELSE Outcome(NoError,
                     Population(new_population_name,
                                Len(left1.index) + Len(right.index),
                                left1.parent,
                                left1.warnings \o right.warnings \o <<MergedMarker>>,
                                _merge_index(left1, right),
                                new_geom,
                                Join(left1.definition, right.definition)),
                     left1, w1 \o w2)

\* variant of _merge_polygons that puts right's warnings before left's
_merge_polygons_right_first(left, right, new_population_name) ==
    LET overlap == _check_overlap(left, right, TRUE)
        new_geom == PolygonGeom(left.geom.x, left.geom.y,
                                left.geom.transform_x, left.geom.transform_y,
                                unary_union(left.geom.shape, right.geom.shape))
    IN  IF overlap # NoError
        THEN Raise(overlap, left, <<>>)
        ELSE Outcome(NoError,
                     Population(new_population_name,
                                Len(left.index) + Len(right.index),
                                left.parent,
                                right.warnings \o left.warnings \o <<MergedMarker>>,
                                _merge_index(left, right),
                                new_geom,
                                None),
                     left, <<>>)

_merge_polygons(left, right, new_population_name) ==
    LET overlap == _check_overlap(left, right, TRUE)
        new_shape == unary_union(left.geom.shape, right.geom.shape)
        new_geom == PolygonGeom(left.geom.x, left.geom.y,
                                left.geom.transform_x, left.geom.transform_y,
                                new_shape)
    IN  IF overlap # NoError
        THEN Raise(overlap, left, <<>>)
        ELSE Outcome(NoError,
                     Population(new_population_name,
                                Len(left.index) + Len(right.index),
                                left.parent,
                                left.warnings \o right.warnings \o <<MergedMarker>>,
                                _merge_index(left, right),
                                new_geom,
                                None),
                     left, <<>>)

merge_populations(left, right, new_population_name) ==
    LET dims == _check_transforms_dimensions(left, right)
        name == Or(new_population_name,
                   "merge_" \o Str(left.population_name) \o "_" \o Str(right.population_name))
    IN  IF dims # NoError
        THEN Raise(dims, left, <<>>)
        ELSE IF left.parent # right.parent
        THEN Raise("Parent populations do not match", left, <<>>)
        ELSE IF left.geom.type # right.geom.type
        THEN Raise("Geometries must be of the same type", left, <<>>)
        ELSE IF left.geom.type = "ThresholdGeom"
        THEN _merge_thresholds(left, right, name)
        ELSE _merge_polygons(left, right, name)

RECURSIVE reduce(_, _, _, _, _)
\* functools.reduce(lambda p1, p2: merge_populations(p1, p2), populations) from
\* item i on: acc is the value folded so far, which is the object pops[1] itself
\* while first holds; pops are the argument objects as the fold leaves them
reduce(i, acc, first, pops, w) ==
    IF i > Len(pops)
    THEN [error |-> NoError, ret |-> acc, first |-> first, populations |-> pops, warned |-> w]
    ELSE LET o == merge_populations(acc, pops[i], None)
             pops1 == IF first THEN [pops EXCEPT ![1] = o.left] ELSE pops
         IN  IF o.error # NoError
             THEN [error |-> o.error, ret |-> NoPopulation, first |-> first,
                   populations |-> pops1, warned |-> w \o o.warned]
             ELSE reduce(i + 1, o.ret, FALSE, pops1, w \o o.warned)

merge_multiple_populations(pops, new_population_name) ==
    LET names == {pops[i].population_name : i \in 1..Len(pops)}
        fail(err) == [error |-> err, ret |-> NoPopulation, populations |-> pops, warned |-> <<>>]
    IN  IF new_population_name = None /\ Cardinality(names) # 1
        THEN fail("If a new population name is not given the populations are expected to have the same population name")
        ELSE IF ~Truthy(new_population_name) /\ Len(pops) = 0
        THEN fail("IndexError: list index out of range")
        ELSE IF Len(pops) = 0
        THEN fail("TypeError: reduce() of empty sequence with no initial value")
        ELSE
        LET name == Or(new_population_name, pops[1].population_name)
            r == reduce(2, pops[1], TRUE, pops, <<>>)
            \* merged_pop.population_name = new_population_name
            merged_pop == [r.ret EXCEPT !.population_name = name]
        IN  IF r.error # NoError
            THEN [error |-> r.error, ret |-> NoPopulation,
                  populations |-> r.populations, warned |-> r.warned]
            ELSE [error |-> NoError, ret |-> merged_pop,
                  populations |-> IF r.first THEN [r.populations EXCEPT ![1] = merged_pop]
                                  ELSE r.populations,
                  warned |-> r.warned]

----------------------------------------------------------------------------
(* The populations the functions are applied to. *)

Names == {"a", "b"}
Parents == {"root", "P1"}
WarningLists == {<<>>, <<"w1">>, <<"w2">>}
Definitions == {"+", None}
ClusterLists == {<<>>, <<"c1">>}
CtrlIndexes == {{}, {"ctrl1"}}
Axes == {"FSC-A", "SSC-A"}
Transforms == {"logicle", None}
Thresholds == {1, 2}
\* three shapes: {1,2} meets {2,3}, and {4} meets neither
Shapes == {{1, 2}, {2, 3}, {4}}
\* the values given for new_population_name
NameArgs == {None, "", "m"}

\* index arrays as gating writes them: increasing event identifiers
IndexArrays == {SortedSeq(S) : S \in SUBSET (1..MaxId)}

BaseThreshold == ThresholdGeom("FSC-A", "SSC-A", "logicle", "logicle", 1, 1)
BasePolygon == PolygonGeom("FSC-A", "SSC-A", "logicle", "logicle", {1, 2})

\* a population as gating creates it: the constructor, then the index setter
Base(geom) == SetIndex(Population("a", 0, "root", <<>>, <<>>, geom, "+"), <<1, 2>>)

\* the geometries that differ from g in one attribute (its variant included)
GeomVariants(g) ==
    {[g EXCEPT !.x = v] : v \in Axes}
    \cup {[g EXCEPT !.y = v] : v \in Axes}
    \cup {[g EXCEPT !.transform_x = v] : v \in Transforms}
    \cup {[g EXCEPT !.transform_y = v] : v \in Transforms}
    \cup (IF g.type = "ThresholdGeom"
          THEN {[g EXCEPT !.x_threshold = v] : v \in Thresholds}
               \cup {[g EXCEPT !.y_threshold = v] : v \in Thresholds}
               \cup {PolygonGeom(g.x, g.y, g.transform_x, g.transform_y, {1, 2})}
          ELSE {[g EXCEPT !.shape = v] : v \in Shapes}
               \cup {ThresholdGeom(g.x, g.y, g.transform_x, g.transform_y, 1, 1)})

\* the populations that differ from p in one attribute
Variants(p) ==
    {[p EXCEPT !.population_name = v] : v \in Names}
    \cup {[p EXCEPT !.parent = v] : v \in Parents}
    \cup {[p EXCEPT !.warnings = v] : v \in WarningLists}
    \cup {[p EXCEPT !.definition = v] : v \in Definitions}
    \cup {[p EXCEPT !.clusters = v] : v \in ClusterLists}
    \cup {[p EXCEPT !.ctrl_index = v] : v \in CtrlIndexes}
    \cup {SetIndex(p, v) : v \in IndexArrays}
    \cup {[p EXCEPT !.geom = v] : v \in GeomVariants(p.geom)}

RECURSIVE Within(_, _)
\* the populations that differ from one of S in at most k attributes
Within(S, k) == IF k = 0 THEN S ELSE Within(UNION {Variants(p) : p \in S}, k - 1)

\* the pairs that differ from the pair (b, b) in at most MaxDiff attributes
PairsNear(b) ==
    UNION {Within({b}, i) \X Within({b}, MaxDiff - i) : i \in 0..MaxDiff}

PairInputs == PairsNear(Base(BaseThreshold)) \cup PairsNear(Base(BasePolygon))

\* the populations of the longer lists: one gate, names, clusters and members vary
ListPopulations ==
    {SetIndex([Base(BaseThreshold) EXCEPT !.population_name = nm, !.clusters = c], idx) :
        nm \in Names, c \in ClusterLists, idx \in {<<1, 2>>, <<2, 3>>}}

ListInputs == UNION {[1..k -> ListPopulations] : k \in 0..MaxPops}

----------------------------------------------------------------------------
(* The specification of the merge functions. *)

\* no EvaluateBatchEffects object exists
NoSession == [constructed |-> FALSE]
\* no process pool exists
NoPool == [pc |-> "idle", tasks |-> <<>>, status |-> <<>>, q_ |-> <<>>]
\* no numerical function has been called
NoFn == [op |-> "none"]
\* no Normalise object exists
NoNormalise == [constructed |-> FALSE]

Init ==
    /\ populations \in PairInputs \cup ListInputs
    /\ pre = populations
    /\ call = "none"
    /\ new_name = None
    /\ ret = NoPopulation
    /\ error = NoError
    /\ warned = <<>>
    /\ session = NoSession
    /\ pool = NoPool
    /\ fn = NoFn
    /\ normalise = NoNormalise

\* merge_populations(populations[0], populations[1], name)
MergePopulations ==
    /\ call = "none"
    /\ Len(populations) = 2
    /\ \E name \in NameArgs :
        LET o == merge_populations(populations[1], populations[2], name)
        IN  /\ call' = "merge_populations"
            /\ new_name' = name
            /\ populations' = [populations EXCEPT ![1] = o.left]
            /\ ret' = o.ret
            /\ error' = o.error
            /\ warned' = o.warned
    /\ UNCHANGED <<pre, session, pool, fn, normalise>>

\* merge_multiple_populations(populations, name)
MergeMultiplePopulations ==
    /\ call = "none"
    /\ \E name \in NameArgs :
        LET o == merge_multiple_populations(populations, name)
        IN  /\ call' = "merge_multiple_populations"
            /\ new_name' = name
            /\ populations' = o.populations
            /\ ret' = o.ret
            /\ error' = o.error
            /\ warned' = o.warned
    /\ UNCHANGED <<pre, session, pool, fn, normalise>>

Next == MergePopulations \/ MergeMultiplePopulations

Spec == Init /\ [][Next]_vars

----------------------------------------------------------------------------
(* EvaluateBatchEffects (cytopy/flow/batch_effects.py).  `session` holds    *)
(*   sample_ids   self.sample_ids, a list;                                  *)
(*   has_root     the samples of the experiment that have the root          *)
(*                population (what load_and_transform finds);               *)
(*   data         the keys of self.data in insertion order (each sample's   *)
(*                table is named by its key);                               *)
(*   kde_cache    self.kde_cache, a dict, as its items in insertion order;  *)
(*   fits         for each sample, how often kde_multivariant was run on    *)
(*                its table since load_data last ran (counted to MaxFits);  *)
(*   last         the last call: its name, its kde_kernel argument, the     *)
(*                exception that ended it, the value it returned and the    *)
(*                keys it removed from kde_cache.                           *)

\* fits of one sample are counted up to MaxFits
MaxFits == 2

\* experiment.list_samples()
list_samples == <<"s1", "s2", "s3">>
SampleIds == Range(list_samples)

Kernels == {"gaussian", "tophat"}
\* the divergence_method arguments: the three valid ones and an invalid one
Methods == {"jsd", "kl", "hellinger", "mmd"}

\* dict.keys() of a dict given as its items
Keys(items) == {items[i].name : i \in 1..Len(items)}
\* d[k]
Lookup(items, k) == items[CHOOSE i \in 1..Len(items) : items[i].name = k].q

\* kde_multivariant(table, bandwidth='cross_val', kernel=kernel): the estimate
\* is determined by the table and the kernel
kde_multivariant(sample, kernel) == [sample |-> sample, kernel |-> kernel]
\* indexed_kde((name, table), kde_f)
indexed_kde(name, kernel) == [name |-> name, q |-> kde_multivariant(name, kernel)]

\* jsd_divergence / kl_divergence / hellinger_dot applied to two estimates
Divergence(method, p, q) == [method |-> method, p |-> p, q |-> q]

\* ordered_load_transform over self.sample_ids, None results dropped
LoadedSamples(sess) == SelectSeq(sess.sample_ids, LAMBDA x : x \in sess.has_root)

Min(a, b) == IF a < b THEN a ELSE b
\* one more run of kde_multivariant on each sample of the list
Fitted(fits, names) ==
    [x \in DOMAIN fits |-> IF x \in Range(names) THEN Min(fits[x] + 1, MaxFits) ELSE fits[x]]

NoCall == [op |-> "__init__", kernel |-> None, error |-> NoError, ret |-> <<>>, removed |-> {}]
Returned(op, kernel, v) ==
    [op |-> op, kernel |-> kernel, error |-> NoError, ret |-> v, removed |-> {}]
Raised(op, kernel, err) ==
    [op |-> op, kernel |-> kernel, error |-> err, ret |-> <<>>, removed |-> {}]

\* for name, q in new: self.kde_cache[name] = q
CacheUpdate(cache, new) ==
    LET kept == [i \in 1..Len(cache) |->
                    IF cache[i].name \in Keys(new)
                    THEN [name |-> cache[i].name, q |-> Lookup(new, cache[i].name)]
                    ELSE cache[i]]
    IN  kept \o SelectSeq(new, LAMBDA e : e.name \notin Keys(cache))

\* variant of load_data that leaves self.kde_cache as it is
load_data_keeping_cache(sess) ==
    [sess EXCEPT !.last = Returned("load_data", None, LoadedSamples(sess))]

\* load_data(): the session after the call, its return value in last.ret
load_data(sess) ==
    [sess EXCEPT !.kde_cache = <<>>,
                 !.fits = [x \in DOMAIN sess.fits |-> 0],
                 !.last = [Returned("load_data", None, LoadedSamples(sess))
                              EXCEPT !.removed = Keys(sess.kde_cache)]]

\* variant of samples_df that does not look into the cache
samples_df_uncached_or_not(data, comparisons, cache) ==
    SelectSeq(data, LAMBDA name : name \in comparisons)

\* calc_divergence's samples_df: the loaded samples asked for and not cached
samples_df(data, comparisons, cache) ==
    SelectSeq(data, LAMBDA name : name \in comparisons /\ name \notin Keys(cache))

\* calc_divergence(target_id, comparisons, kde_kernel, divergence_method): the
\* session after the call, with the outcome in last.  comparisons is only tested
\* for membership and is given as a set.
calc_divergence(sess, target_id, comparisons, kde_kernel, divergence_method) ==
    IF divergence_method \notin {"jsd", "kl", "hellinger"}
    THEN [sess EXCEPT !.last = Raised("calc_divergence", kde_kernel, "Invalid divergence metric")]
    ELSE IF target_id \notin Keys(sess.kde_cache) /\ target_id \notin Range(sess.data)
    THEN [sess EXCEPT !.last = Raised("calc_divergence", kde_kernel, "KeyError")]
    ELSE
    LET \* the target's estimate is fitted if it is not cached
        target == IF target_id \notin Keys(sess.kde_cache) THEN <<target_id>> ELSE <<>>
        cache1 == CacheUpdate(sess.kde_cache,
                              [i \in 1..Len(target) |-> indexed_kde(target[i], kde_kernel)])
        others == samples_df(sess.data, comparisons, cache1)
        \* pool.map(kde_indexed_f, samples_df)
        q_ == [i \in 1..Len(others) |-> indexed_kde(others[i], kde_kernel)]
        cache2 == CacheUpdate(cache1, q_)
        p == Lookup(cache2, target_id)
        result == [i \in 1..Len(cache2) |->
                      <<cache2[i].name, Divergence(divergence_method, p, cache2[i].q)>>]
    IN  [sess EXCEPT !.kde_cache = cache2,
                     !.fits = Fitted(Fitted(sess.fits, target), others),
                     !.last = Returned("calc_divergence", kde_kernel, result)]

RECURSIVE matrix_rows(_, _, _, _, _, _)
\* the loop of divergence_matrix from sample i of samples on: one call of
\* calc_divergence and one row of divergence_df for each sample
matrix_rows(sess, samples, i, kde_kernel, divergence_method, rows) ==
    IF i > Len(samples)
    THEN [sess EXCEPT !.last = Returned("divergence_matrix", kde_kernel, rows)]
    ELSE LET s1 == calc_divergence(sess, samples[i], Range(samples), kde_kernel, divergence_method)
         IN  IF s1.last.error # NoError
             THEN [s1 EXCEPT !.last = Raised("divergence_matrix", kde_kernel, s1.last.error)]
             ELSE matrix_rows(s1, samples, i + 1, kde_kernel, divergence_method,
                              Append(rows, [sample_id |-> samples[i], row |-> s1.last.ret]))

\* divergence_matrix(exclude, kde_kernel, divergence_method): exclude is None or
\* a list, given as a set; the clustering needs two rows at least
divergence_matrix(sess, exclude, kde_kernel, divergence_method) ==
    LET samples == IF exclude = {None} THEN sess.sample_ids
                   ELSE SelectSeq(sess.sample_ids, LAMBDA x : x \notin exclude)
        s1 == matrix_rows(sess, samples, 1, kde_kernel, divergence_method, <<>>)
    IN  IF s1.last.error # NoError THEN s1
        ELSE IF Len(samples) = 0
        THEN [s1 EXCEPT !.last = Raised("divergence_matrix", kde_kernel, "KeyError: sample_id")]
        ELSE IF Len(samples) = 1
        THEN [s1 EXCEPT !.last = Raised("divergence_matrix", kde_kernel,
                                        "ValueError: empty distance matrix")]
        ELSE s1

\* divergence_barplot(target_id, comparisons, kde_kernel, divergence_method):
\* the plotting loop appends to a key that hd_ does not have
divergence_barplot(sess, target_id, comparisons, kde_kernel, divergence_method) ==
    LET s1 == calc_divergence(sess, target_id, comparisons, kde_kernel, divergence_method)
    IN  IF s1.last.error # NoError
        THEN [s1 EXCEPT !.last = Raised("divergence_barplot", kde_kernel, s1.last.error)]
        ELSE [s1 EXCEPT !.last = Raised("divergence_barplot", kde_kernel, "KeyError: distance")]

\* marker_variance / dim_reduction_grid(reference_id, comparison_samples): plots
\* drawn from self.data
plot(sess, op, reference_id, comparison_samples) ==
    IF reference_id \notin Range(sess.sample_ids)
    THEN [sess EXCEPT !.last = Raised(op, None, "Invalid reference ID for experiment currently loaded")]
    ELSE IF ~(comparison_samples \subseteq Range(sess.sample_ids))
    THEN [sess EXCEPT !.last = Raised(op, None, "Invalid sample IDs for experiment currently loaded")]
    ELSE IF ~(({reference_id} \cup comparison_samples) \subseteq Range(sess.data))
    THEN [sess EXCEPT !.last = Raised(op, None, "KeyError")]
    ELSE [sess EXCEPT !.last = Returned(op, None, <<>>)]

\* EvaluateBatchEffects(experiment, root_population) for an experiment of which
\* the samples of has_root have the root population:
\* self.data = self.load_data(), then self.kde_cache = dict()
EvaluateBatchEffects(has_root) ==
    LET s0 == [constructed |-> TRUE, sample_ids |-> list_samples, has_root |-> has_root,
               data |-> <<>>, kde_cache |-> <<>>, fits |-> [x \in SampleIds |-> 0],
               last |-> NoCall]
        s1 == load_data(s0)
    IN  [s1 EXCEPT !.data = s1.last.ret, !.kde_cache = <<>>, !.last = NoCall]

----------------------------------------------------------------------------
(* The specification of one EvaluateBatchEffects session. *)

InitBatch ==
    /\ \E has_root \in SUBSET SampleIds : session = EvaluateBatchEffects(has_root)
    /\ populations = <<>> /\ pre = <<>> /\ call = "none" /\ new_name = None
    /\ ret = NoPopulation /\ error = NoError /\ warned = <<>>
    /\ pool = NoPool /\ fn = NoFn /\ normalise = NoNormalise

LoadData ==
    /\ session' = load_data(session)
    /\ UNCHANGED <<otherVars, pool>>

CalcDivergence ==
    /\ \E target_id \in SampleIds, comparisons \in SUBSET SampleIds,
          kde_kernel \in Kernels, divergence_method \in Methods :
         session' = calc_divergence(session, target_id, comparisons, kde_kernel, divergence_method)
    /\ UNCHANGED <<otherVars, pool>>

DivergenceMatrix ==
    /\ \E exclude \in {{None}} \cup SUBSET SampleIds,
          kde_kernel \in Kernels, divergence_method \in Methods :
         session' = divergence_matrix(session, exclude, kde_kernel, divergence_method)
    /\ UNCHANGED <<otherVars, pool>>

DivergenceBarplot ==
    /\ \E target_id \in SampleIds, comparisons \in SUBSET SampleIds,
          kde_kernel \in Kernels, divergence_method \in Methods :
         session' = divergence_barplot(session, target_id, comparisons, kde_kernel, divergence_method)
    /\ UNCHANGED <<otherVars, pool>>

MarkerVariance ==
    /\ \E reference_id \in SampleIds, comparison_samples \in SUBSET SampleIds :
         session' = plot(session, "marker_variance", reference_id, comparison_samples)
    /\ UNCHANGED <<otherVars, pool>>

DimReductionGrid ==
    /\ \E reference_id \in SampleIds, comparison_samples \in SUBSET SampleIds :
         session' = plot(session, "dim_reduction_grid", reference_id, comparison_samples)
    /\ UNCHANGED <<otherVars, pool>>

NextBatch ==
    \/ LoadData
    \/ CalcDivergence
    \/ DivergenceMatrix
    \/ DivergenceBarplot
    \/ MarkerVariance
    \/ DimReductionGrid

SpecBatch == InitBatch /\ [][NextBatch]_vars

----------------------------------------------------------------------------
(* calc_divergence step by step: the coordinating process checks its         *)
(* arguments, fits and caches the target's estimate and starts the pool;     *)
(* each worker process runs indexed_kde on one sample; when pool.map has     *)
(* returned, the coordinating process merges the results into the cache and  *)
(* returns.  `pool` holds                                                    *)
(*   pc       "idle" when no pool exists, "mapping" while pool.map runs;     *)
(*   tasks    samples_df, the samples handed to the workers;                 *)
(*   status   for each task "queued", "running" or "done";                   *)
(*   q_       the results that the workers have sent back, by task;          *)
(*   target_id, kernel, method   the arguments of the call in progress.      *)

NoResult == [name |-> None]

\* calc_divergence up to the creation of the pool: the session and the pool
calc_begin(sess, target_id, comparisons, kde_kernel, divergence_method) ==
    IF divergence_method \notin {"jsd", "kl", "hellinger"}
    THEN [session |-> [sess EXCEPT !.last = Raised("calc_divergence", kde_kernel,
                                                   "Invalid divergence metric")],
          pool |-> NoPool]
    ELSE IF target_id \notin Keys(sess.kde_cache) /\ target_id \notin Range(sess.data)
    THEN [session |-> [sess EXCEPT !.last = Raised("calc_divergence", kde_kernel, "KeyError")],
          pool |-> NoPool]
    ELSE
    LET target == IF target_id \notin Keys(sess.kde_cache) THEN <<target_id>> ELSE <<>>
        cache1 == CacheUpdate(sess.kde_cache,
                              [i \in 1..Len(target) |-> indexed_kde(target[i], kde_kernel)])
        others == samples_df(sess.data, comparisons, cache1)
    IN  [session |-> [sess EXCEPT !.kde_cache = cache1, !.fits = Fitted(sess.fits, target)],
         pool |-> [pc |-> "mapping", tasks |-> others,
                   status |-> [i \in 1..Len(others) |-> "queued"],
                   q_ |-> [i \in 1..Len(others) |-> NoResult],
                   target_id |-> target_id, kernel |-> kde_kernel,
                   method |-> divergence_method]]

\* variant of worker_memory in which a worker writes its result into the
\* coordinating process's cache
worker_memory_shared(sess, result) ==
    [sess EXCEPT !.kde_cache = CacheUpdate(@, <<result>>)]

\* what a worker's run does to the coordinating process's object: the worker is
\* another process, and its result travels back through pool.map only
worker_memory(sess, result) == sess

\* a worker has run task i: kde_indexed_f(samples_df[i])
worker_run(pl, i) ==
    [pl EXCEPT !.status[i] = "done", !.q_[i] = indexed_kde(pl.tasks[i], pl.kernel)]

\* calc_divergence from the return of pool.map on
calc_end(sess, pl) ==
    LET cache2 == CacheUpdate(sess.kde_cache, pl.q_)
        p == Lookup(cache2, pl.target_id)
        result == [i \in 1..Len(cache2) |->
                      <<cache2[i].name, Divergence(pl.method, p, cache2[i].q)>>]
    IN  [sess EXCEPT !.kde_cache = cache2,
                     !.fits = Fitted(sess.fits, pl.tasks),
                     !.last = Returned("calc_divergence", pl.kernel, result)]

PoolCalcBegin ==
    /\ pool.pc = "idle"
    /\ \E target_id \in SampleIds, comparisons \in SUBSET SampleIds,
          kde_kernel \in Kernels, divergence_method \in Methods :
         LET o == calc_begin(session, target_id, comparisons, kde_kernel, divergence_method)
         IN  session' = o.session /\ pool' = o.pool
    /\ UNCHANGED otherVars

WorkerStart ==
    /\ pool.pc = "mapping"
    /\ \E i \in 1..Len(pool.tasks) :
         /\ pool.status[i] = "queued"
         /\ pool' = [pool EXCEPT !.status[i] = "running"]
    /\ UNCHANGED <<otherVars, session>>

WorkerDone ==
    /\ pool.pc = "mapping"
    /\ \E i \in 1..Len(pool.tasks) :
         /\ pool.status[i] = "running"
         /\ pool' = worker_run(pool, i)
         /\ session' = worker_memory(session, pool'.q_[i])
    /\ UNCHANGED otherVars

PoolCalcEnd ==
    /\ pool.pc = "mapping"
    /\ \A i \in 1..Len(pool.tasks) : pool.status[i] = "done"
    /\ session' = calc_end(session, pool)
    /\ pool' = [pool EXCEPT !.pc = "idle"]
    /\ UNCHANGED otherVars

NextPool == PoolCalcBegin \/ WorkerStart \/ WorkerDone \/ PoolCalcEnd

SpecPool == InitBatch /\ [][NextPool]_vars

----------------------------------------------------------------------------
(* The numerical functions: jsd_divergence and kl_divergence of               *)
(* batch_effects.py, hellinger_dot and the bandwidth search of                *)
(* kde_multivariant of utilities.py.  An array is a sequence of GridN         *)
(* integers.  A floating-point result is given by its class: "nan", "-inf",   *)
(* "inf", "0", "(0,1)", "1", "(1,inf)", or "(0,inf)" for a positive finite    *)
(* value of unknown size.  Bandwidths are counted in hundredths.              *)

\* an array has GridN values
GridN == 2
\* the non-negative values of an array are the squares of 0..MaxRoot
MaxRoot == 2

Values == {r * r : r \in 0..MaxRoot} \cup {-1}
Arrays == [1..GridN -> Values]
\* the arrays that np.exp(log_pdf) can be: no value is negative
Estimates == {a \in Arrays : \A i \in 1..GridN : a[i] >= 0}

RECURSIVE SumTo(_, _)
SumTo(a, n) == IF n = 0 THEN 0 ELSE a[n] + SumTo(a, n - 1)
\* np.sum(a)
Sum(a) == SumTo(a, Len(a))

Sgn(n) == IF n > 0 THEN 1 ELSE IF n < 0 THEN -1 ELSE 0

\* scipy.special.rel_entr(a, b) of two numbers given by their signs: TRUE if
\* it is infinite (it is a*log(a/b) for a, b > 0, and 0 for a = 0, b >= 0)
rel_entr_inf(sa, sb) == ~((sa > 0 /\ sb > 0) \/ (sa = 0 /\ sb >= 0))

\* scipy.stats.entropy(pk, qk): both arrays are divided by their sum, and the
\* result is the sum of rel_entr(pk, qk)
kl(pk, qk) ==
    LET sp == Sum(pk)
        sq == Sum(qk)
    IN  IF sp = 0 \/ sq = 0 THEN "nan"
        ELSE IF \E i \in 1..Len(pk) : rel_entr_inf(Sgn(pk[i]) * Sgn(sp), Sgn(qk[i]) * Sgn(sq))
        THEN "inf"
        ELSE IF \A i \in 1..Len(pk) : pk[i] * sq = qk[i] * sp THEN "0"
        ELSE "(0,inf)"

\* scipy.spatial.distance.jensenshannon(p, q): both arrays are divided by
\* their sum, m is their mean, and the result is
\* sqrt((sum(rel_entr(p, m)) + sum(rel_entr(q, m))) / 2), at most sqrt(ln 2)
jsd(p, q) ==
    LET sp == Sum(p)
        sq == Sum(q)
        \* the sign of m[i] = (p[i]/sp + q[i]/sq) / 2
        sm(i) == Sgn(p[i] * sq + q[i] * sp) * Sgn(sp) * Sgn(sq)
    IN  IF sp = 0 \/ sq = 0 THEN "nan"
        ELSE IF \E i \in 1..Len(p) : \/ rel_entr_inf(Sgn(p[i]) * Sgn(sp), sm(i))
                                     \/ rel_entr_inf(Sgn(q[i]) * Sgn(sq), sm(i))
        THEN "inf"
        ELSE IF \A i \in 1..Len(p) : p[i] * sq = q[i] * sp THEN "0"
        ELSE "(0,1)"

\* the outcome of a call: the value returned, the exception, the warnings
FnOutcome(op, x, y, v) ==
    [op |-> op, x |-> x, y |-> y, ret |-> v, error |-> NoError, warned |-> <<>>]

\* jsd_divergence(x, y)
jsd_divergence(x, y) ==
    LET div == jsd(x, y)
    IN  IF div \in {"inf", "-inf"}
        THEN FnOutcome("jsd_divergence", x, y, "1")
        ELSE FnOutcome("jsd_divergence", x, y, div)

\* kl_divergence(x, y)
kl_divergence(x, y) == FnOutcome("kl_divergence", x, y, kl(x, y))

\* np.sqrt of a value of an array
Root(v) == CHOOSE r \in 0..MaxRoot : r * r = v

\* hellinger_dot(p, q) = np.sqrt(z @ z / 2) with z = np.sqrt(p) - np.sqrt(q)
hellinger_dot(p, q) ==
    IF \E i \in 1..Len(p) : p[i] < 0 \/ q[i] < 0
    THEN FnOutcome("hellinger_dot", p, q, "nan")
    ELSE LET z == [i \in 1..Len(p) |-> Root(p[i]) - Root(q[i])]
             zz == Sum([i \in 1..Len(z) |-> z[i] * z[i]])
         IN  FnOutcome("hellinger_dot", p, q,
                       IF zz = 0 THEN "0" ELSE IF zz < 2 THEN "(0,1)"
                       ELSE IF zz = 2 THEN "1" ELSE "(1,inf)")

\* a sequence of numbers in increasing order
Sorted(a) ==
    [k \in 1..Len(a) |->
        CHOOSE v \in Range(a) :
            /\ Cardinality({i \in 1..Len(a) : a[i] < v}) < k
            /\ k <= Cardinality({i \in 1..Len(a) : a[i] <= v})]

\* np.quantile(x, pct / 100) in hundredths: linear interpolation between the
\* two values of the sorted array next to position (pct / 100) * (len(x) - 1)
np_quantile(x, pct) ==
    LET s == Sorted(x)
        h == pct * (Len(x) - 1)
        below == s[(h \div 100) + 1]
    IN  IF h % 100 = 0 THEN 100 * below
        ELSE 100 * below + (h % 100) * (s[(h \div 100) + 2] - below)

\* the candidates of np.linspace(lo, hi, 30)
NCandidates == 30
\* np.linspace(lo, hi, NCandidates), each value multiplied by NCandidates - 1
np_linspace(lo, hi) == {(NCandidates - 1) * lo + i * (hi - lo) : i \in 0..(NCandidates - 1)}

\* the arguments bandwidth (a string or a float) and bandwidth_search (None or a list)
StrArg(v) == [str |-> v]
FloatArg(v) == [float |-> v]
NoList == [none |-> TRUE]
ListArg(lo, hi) == [list |-> <<lo, hi>>]

\* bandwidth_search == 0 for a list bandwidth_search: a list is not equal to a number
list_eq_number(l, n) == FALSE

\* the outcome of the bandwidth search of kde_multivariant
SearchOutcome(x, bandwidth, bandwidth_search, search, err) ==
    [op |-> "kde_multivariant", x |-> x, bandwidth |-> bandwidth,
     bandwidth_search |-> bandwidth_search, search |-> search,
     candidates |-> IF search = <<>> THEN {} ELSE np_linspace(search[1], search[2]),
     error |-> err]

\* kde_multivariant(x, bandwidth, bandwidth_search) up to grid.fit(x): the range
\* given to np.linspace (in hundredths) and the bandwidths that are searched
bandwidth_grid(x, bandwidth, bandwidth_search) ==
    IF "float" \in DOMAIN bandwidth
    THEN SearchOutcome(x, bandwidth, bandwidth_search, <<>>, NoError)
    ELSE IF bandwidth.str # "cross_val"
    THEN SearchOutcome(x, bandwidth, bandwidth_search, <<>>,
                       "Invalid input for bandwidth, must be either float or \"cross_val\"")
    ELSE IF "list" \in DOMAIN bandwidth_search
    THEN SearchOutcome(x, bandwidth, bandwidth_search, bandwidth_search.list, NoError)
    ELSE LET quantiles == <<np_quantile(x, 5), np_quantile(x, 95)>>
             floored == IF list_eq_number(quantiles, 0)
                        THEN [quantiles EXCEPT ![1] = 1]
                        ELSE quantiles
         IN  SearchOutcome(x, bandwidth, bandwidth_search, floored, NoError)

BandwidthArgs == {StrArg("cross_val"), StrArg("scott"), FloatArg(50)}
SearchArgs == {NoList, ListArg(10, 100), ListArg(0, 100)}

\* the table x of kde_multivariant, as its rows: one column (the array x) or
\* two (the arrays x and y)
Table(x, y, d) == [i \in 1..Len(x) |-> IF d = 1 THEN <<x[i]>> ELSE <<x[i], y[i]>>]

RECURSIVE Flatten(_)
\* the values of a table, row after row
Flatten(t) == IF t = <<>> THEN <<>> ELSE Head(t) \o Flatten(Tail(t))

\* np.amin(x) and np.amax(x): the least and the greatest value of the whole table
np_amin(t) == CHOOSE v \in Range(Flatten(t)) : \A w \in Range(Flatten(t)) : v <= w
np_amax(t) == CHOOSE v \in Range(Flatten(t)) : \A w \in Range(Flatten(t)) : v >= w

\* np.linspace(lo, hi, n) for n >= 2, each value multiplied by n - 1
linspace(lo, hi, n) == [i \in 1..n |-> (n - 1) * lo + (i - 1) * (hi - lo)]

\* the argument x_grid_n (None or a number)
NoGrid == [none |-> TRUE]
GridArg(n) == [n |-> n]
GridArgs == {NoGrid, GridArg(2), GridArg(3)}

\* x_grid: one np.linspace for each column of the table
x_grid(t, n) == [j \in 1..Len(t[1]) |-> linspace(np_amin(t), np_amax(t), n)]
\* x_grid.T
Transposed(g) == [i \in 1..Len(g[1]) |-> [j \in 1..Len(g) |-> g[j][i]]]
\* np.exp(kde.score_samples(points)): the density at each point
score_samples(points) == [i \in 1..Len(points) |-> [density_at |-> points[i]]]

\* kde_multivariant(x, bandwidth, bandwidth_search, x_grid_n): the outcome of
\* the bandwidth search, and the estimate with the scale of its points (the
\* points of a grid of n values are multiplied by n - 1)
kde_multivariant_on(t, bandwidth, bandwidth_search, x_grid_n) ==
    LET s == bandwidth_grid(Flatten(t), bandwidth, bandwidth_search)
        gridded == "n" \in DOMAIN x_grid_n
        estimate == IF s.error # NoError THEN <<>>
                    ELSE IF gridded THEN score_samples(Transposed(x_grid(t, x_grid_n.n)))
                    ELSE score_samples(t)
    IN  [op |-> s.op, x |-> s.x, bandwidth |-> s.bandwidth,
         bandwidth_search |-> s.bandwidth_search, search |-> s.search,
         candidates |-> s.candidates, error |-> s.error,
         table |-> t, x_grid_n |-> x_grid_n,
         scale |-> IF gridded THEN x_grid_n.n - 1 ELSE 1,
         estimate |-> estimate]

----------------------------------------------------------------------------
(* The specification of the numerical functions: one call on arrays drawn in *)
(* InitFn.                                                                    *)

InitFn ==
    /\ fn \in [op : {"none"}, x : Arrays, y : Arrays]
    /\ populations = <<>> /\ pre = <<>> /\ call = "none" /\ new_name = None
    /\ ret = NoPopulation /\ error = NoError /\ warned = <<>>
    /\ session = NoSession /\ pool = NoPool /\ normalise = NoNormalise

fnIdle == <<populations, pre, call, new_name, ret, error, warned, session, pool, normalise>>

JsdDivergence ==
    /\ fn.op = "none"
    /\ fn' = jsd_divergence(fn.x, fn.y)
    /\ UNCHANGED fnIdle

KlDivergence ==
    /\ fn.op = "none"
    /\ fn' = kl_divergence(fn.x, fn.y)
    /\ UNCHANGED fnIdle

HellingerDot ==
    /\ fn.op = "none"
    /\ fn' = hellinger_dot(fn.x, fn.y)
    /\ UNCHANGED fnIdle

KdeMultivariant ==
    /\ fn.op = "none"
    /\ \E d \in {1, 2}, bandwidth \in BandwidthArgs, bandwidth_search \in SearchArgs,
          x_grid_n \in GridArgs :
         fn' = kde_multivariant_on(Table(fn.x, fn.y, d), bandwidth, bandwidth_search, x_grid_n)
    /\ UNCHANGED fnIdle

NextFn == JsdDivergence \/ KlDivergence \/ HellingerDot \/ KdeMultivariant

SpecFn == InitFn /\ [][NextFn]_vars

----------------------------------------------------------------------------
(* Normalise (immunova/flow/normalisation/normalise.py).  `normalise` holds   *)
(*   experiment        the experiment: its samples in order, the samples      *)
(*                     that have the root population, and the distance of     *)
(*                     each pair of samples (the Frobenius norm of the        *)
(*                     difference of their covariance matrices);              *)
(*   source_id, reference_sample   the attributes of these names;             *)
(*   model             self.calibrator.model: None, "loaded" or "fitted";     *)
(*   target            the sample that the model was fitted to, or None;      *)
(*   norm              the normalisation saved to the source's file, or None; *)
(*   last              the last call: its name, the exception it raised,      *)
(*                     whether it fitted the calibrator and whether it wrote  *)
(*                     normalised data to the database.                       *)

\* experiment.list_samples() of the experiment that is normalised
ExperimentSamples == <<"A", "B", "C">>
\* the distances of two different samples
Distances == {1, 2, 5}
SamplePairs == {{a, b} : a, b \in Range(ExperimentSamples)} \ {{a} : a \in Range(ExperimentSamples)}
\* the distance matrices: symmetric, zero on the diagonal
DistanceMatrices ==
    {[a \in Range(ExperimentSamples), b \in Range(ExperimentSamples) |->
         IF a = b THEN 0 ELSE d[{a, b}]] : d \in [SamplePairs -> Distances]}
Experiments ==
    [samples : {ExperimentSamples},
     has_root : {Range(ExperimentSamples), Range(ExperimentSamples) \ {"C"}},
     distance : DistanceMatrices]

RECURSIVE SumOver(_, _)
\* the sum of f over a finite set
SumOver(f, S) ==
    IF S = {} THEN 0
    ELSE LET x == CHOOSE x \in S : TRUE IN f[x] + SumOver(f, S \ {x})

\* the sum of the distances of sample a to all other samples: the mean distance
\* times the number of other samples
TotalDistance(experiment, a) ==
    SumOver([b \in Range(experiment.samples) |-> experiment.distance[a, b]],
            Range(experiment.samples) \ {a})

EmptyInputError == "EmptyInputError"

\* calculate_reference_sample(experiment) of immunova.flow.supervised.ref: the
\* first sample, in the order of the experiment, of which the mean distance to
\* the other samples is minimal
calculate_reference_sample(experiment) ==
    LET samples == experiment.samples
        best == CHOOSE i \in 1..Len(samples) :
                    /\ \A j \in 1..Len(samples) :
                           TotalDistance(experiment, samples[i]) <= TotalDistance(experiment, samples[j])
                    /\ \A j \in 1..(i - 1) :
                           TotalDistance(experiment, samples[j]) > TotalDistance(experiment, samples[i])
    IN  IF Len(samples) < 2 THEN [ret |-> None, error |-> EmptyInputError]
        ELSE [ret |-> samples[best], error |-> NoError]

NormCall(op, err) == [op |-> op, error |-> err, fitted |-> FALSE, saved |-> FALSE]

\* self.calibrator.model after MMDNet(...), after calibrator.load_model(path)
\* and after calibrator.fit(...): MMDNet is not among the sources modelled, and
\* each of the three may leave a model or None
Calibrators == {None, "built"}
LoadedModels == {None, "loaded"}
FittedModels == {None, "fitted"}

\* Normalise(experiment, source_id, root_population, features, reference_sample),
\* where the calibrator it constructs has the model given
Normalise(experiment, source_id, reference_sample, calibrator) ==
    IF source_id \notin Range(experiment.samples)
    THEN [constructed |-> FALSE, last |-> NormCall("__init__", "CalibrationError: invalid target sample")]
    ELSE IF source_id \notin experiment.has_root
    THEN [constructed |-> FALSE, last |-> NormCall("__init__", "CalibrationError: unable to load data")]
    ELSE [constructed |-> TRUE, experiment |-> experiment, source_id |-> source_id,
          reference_sample |-> Or(reference_sample, None),
          model |-> calibrator, target |-> None, norm |-> None,
          last |-> NormCall("__init__", NoError)]

\* Normalise.load_model(model_path), which leaves the calibrator with model
load_model(self, model) ==
    [self EXCEPT !.model = model, !.last = NormCall("load_model", NoError)]

\* variant of Normalise.calculate_reference_sample that does not assign the
\* sample it has calculated
calculate_and_forget(self) ==
    LET o == calculate_reference_sample(self.experiment)
    IN  [self EXCEPT !.last = NormCall("calculate_reference_sample", o.error)]

\* Normalise.calculate_reference_sample()
Normalise_calculate_reference_sample(self) ==
    LET o == calculate_reference_sample(self.experiment)
    IN  IF o.error # NoError
        THEN [self EXCEPT !.last = NormCall("calculate_reference_sample", o.error)]
        ELSE [self EXCEPT !.reference_sample = o.ret,
                          !.last = NormCall("calculate_reference_sample", NoError)]

\* variant of normalise_and_save that does not test self.calibrator.model
normalise_and_save_unchecked(self) ==
    [self EXCEPT !.norm = "MMD-ResNet",
                 !.last = [NormCall("normalise_and_save", NoError) EXCEPT !.saved = TRUE]]

\* Normalise.normalise_and_save()
normalise_and_save(self) ==
    IF self.model = None
    THEN [self EXCEPT !.last = NormCall("normalise_and_save", NoError)]
    ELSE [self EXCEPT !.norm = "MMD-ResNet",
                      !.last = [NormCall("normalise_and_save", NoError) EXCEPT !.saved = TRUE]]

\* calibrate from `# Load and transform data` on: the target is loaded, the
\* calibrator is fitted to it, which leaves it with model, and, if save, the
\* normalised data is written
load_and_fit(self, save, model) ==
    IF self.reference_sample \notin self.experiment.has_root
    THEN [self EXCEPT !.last = NormCall("calibrate", "CalibrationError: unable to load data")]
    ELSE LET fitted == [self EXCEPT !.model = model, !.target = self.reference_sample]
             saved == normalise_and_save(fitted)
         IN  IF save
             THEN [saved EXCEPT !.last = [NormCall("calibrate", NoError)
                                             EXCEPT !.fitted = TRUE, !.saved = saved.last.saved]]
             ELSE [fitted EXCEPT !.last = [NormCall("calibrate", NoError) EXCEPT !.fitted = TRUE]]

\* Normalise.calibrate(save=save), where calibrator.fit leaves model
calibrate(self, save, model) ==
    IF self.reference_sample = None
    THEN [self EXCEPT !.last = NormCall("calibrate", NoError)]
    ELSE IF self.reference_sample \notin Range(self.experiment.samples)
    THEN [self EXCEPT !.last = NormCall("calibrate", NoError)]
    ELSE load_and_fit(self, save, model)

SourceArgs == {"A", "Z"}
ReferenceArgs == {None, "", "B", "C", "Z"}

----------------------------------------------------------------------------
(* The specification of one Normalise object. *)

InitNorm ==
    /\ \E experiment \in Experiments, source_id \in SourceArgs, reference_sample \in ReferenceArgs,
          calibrator \in Calibrators :
         normalise = Normalise(experiment, source_id, reference_sample, calibrator)
    /\ populations = <<>> /\ pre = <<>> /\ call = "none" /\ new_name = None
    /\ ret = NoPopulation /\ error = NoError /\ warned = <<>>
    /\ session = NoSession /\ pool = NoPool /\ fn = NoFn

normIdle == <<populations, pre, call, new_name, ret, error, warned, session, pool, fn>>

LoadModel ==
    /\ normalise.constructed
    /\ \E model \in LoadedModels : normalise' = load_model(normalise, model)
    /\ UNCHANGED normIdle

CalculateReferenceSample ==
    /\ normalise.constructed
    /\ normalise' = Normalise_calculate_reference_sample(normalise)
    /\ UNCHANGED normIdle

Calibrate ==
    /\ normalise.constructed
    /\ \E save \in BOOLEAN, model \in FittedModels : normalise' = calibrate(normalise, save, model)
    /\ UNCHANGED normIdle

NormaliseAndSave ==
    /\ normalise.constructed
    /\ normalise' = normalise_and_save(normalise)
    /\ UNCHANGED normIdle

NextNorm == LoadModel \/ CalculateReferenceSample \/ Calibrate \/ NormaliseAndSave

SpecNorm == InitNorm /\ [][NextNorm]_vars

----------------------------------------------------------------------------
(* Properties of the merge functions (checked under Spec). *)

Merged == call = "merge_populations" /\ error = NoError
left0 == pre[1]
right0 == pre[2]
BothThreshold == left0.geom.type = "ThresholdGeom" /\ right0.geom.type = "ThresholdGeom"
BothPolygon == left0.geom.type = "PolygonGeom" /\ right0.geom.type = "PolygonGeom"
IndexUnion == Range(left0.index) \cup Range(right0.index)

\* C1: the index of a population returned by merge_populations holds exactly the
\* identifiers of the two inputs' indices, each of them once.
C1_MergedIndexIsUnion ==
    Merged =>
        /\ Range(ret.index) = IndexUnion
        /\ \A i, j \in 1..Len(ret.index) : i # j => ret.index[i] # ret.index[j]

\* two inputs that share identifier 2 have been merged
C1_Witness ==
    /\ Merged
    /\ left0.index = <<1, 2>> /\ right0.index = <<2, 3>>
    /\ ret.index = <<1, 2, 3>>

\* C2: the size n of a population returned by merge_populations is the number of
\* elements of the union of the two inputs' indices.
C2_SizeIsUnionSize ==
    Merged => ret.n = Cardinality(IndexUnion)

\* what the code records instead: the sum of the two inputs' lengths
C2_SizeIsSumOfLengths ==
    Merged => ret.n = Len(left0.index) + Len(right0.index)

\* parents, geometry types, axes and transforms of the two inputs agree
Compatible(l, r) ==
    /\ l.parent = r.parent
    /\ l.geom.type = r.geom.type
    /\ l.geom.x = r.geom.x /\ l.geom.y = r.geom.y
    /\ l.geom.transform_x = r.geom.transform_x
    /\ l.geom.transform_y = r.geom.transform_y

\* C3: merge_populations raises and returns nothing when the inputs differ in
\* parent, geometry type, an axis or a transform; whatever either function returns
\* was merged from populations of one parent.
C3_IncompatibleInputsFail ==
    /\ call = "merge_populations" /\ ~Compatible(left0, right0)
           => error # NoError /\ ret = NoPopulation
    /\ call # "none" /\ ret # NoPopulation
           => \A i, j \in 1..Len(pre) : pre[i].parent = pre[j].parent

\* a pair that differs in the parent alone has been refused
C3_Witness ==
    /\ call = "merge_populations"
    /\ left0.parent # right0.parent
    /\ left0.geom = right0.geom
    /\ error = "Parent populations do not match"
    /\ ret = NoPopulation

\* C4: merging two Threshold populations raises when an x or y threshold differs;
\* a merged Threshold population has left's geometry unchanged.
C4_ThresholdsMustMatch ==
    call = "merge_populations" /\ BothThreshold =>
        /\ (left0.geom.x_threshold # right0.geom.x_threshold
            \/ left0.geom.y_threshold # right0.geom.y_threshold)
               => error # NoError /\ ret = NoPopulation
        /\ error = NoError => ret.geom = left0.geom

\* two Threshold populations that differ in the y threshold alone have been refused
C4_Witness ==
    /\ call = "merge_populations" /\ BothThreshold
    /\ Compatible(left0, right0)
    /\ left0.geom.x_threshold = right0.geom.x_threshold
    /\ left0.geom.y_threshold # right0.geom.y_threshold
    /\ error = "Y threshold should match between populations"
    /\ ret = NoPopulation

\* C5: merging two Polygon populations whose shapes do not intersect raises and
\* returns nothing; a merged Polygon population comes from intersecting shapes.
C5_PolygonsMustOverlap ==
    call = "merge_populations" /\ BothPolygon =>
        /\ ~Intersects(left0.geom.shape, right0.geom.shape)
               => error # NoError /\ ret = NoPopulation
        /\ ret # NoPopulation => Intersects(left0.geom.shape, right0.geom.shape)

\* two Polygon populations that agree in all but their disjoint shapes were refused
C5_Witness ==
    /\ call = "merge_populations" /\ BothPolygon
    /\ Compatible(left0, right0)
    /\ ~Intersects(left0.geom.shape, right0.geom.shape)
    /\ error = "Invalid: non-overlapping populations"
    /\ ret = NoPopulation

HasClusters == left0.clusters # <<>> \/ right0.clusters # <<>>
HasCtrlIndex == left0.ctrl_index # {} \/ right0.ctrl_index # {}

\* C6: when an input of a successful merge has clusters or control indexes, the
\* merged population has neither and a warning was issued for what was dropped.
C6_DroppedWithWarning ==
    Merged =>
        /\ HasClusters \/ HasCtrlIndex => ret.clusters = <<>> /\ ret.ctrl_index = {}
        /\ HasClusters => ClustersVoid \in Range(warned)
        /\ HasCtrlIndex => CtrlIndexVoid \in Range(warned)

\* what the code does: the merged population never has clusters or control
\* indexes, and the warnings are issued on the Threshold path
C6_DroppedAndWarnedOnThresholdPath ==
    Merged =>
        /\ ret.clusters = <<>> /\ ret.ctrl_index = {}
        /\ BothThreshold /\ HasClusters => ClustersVoid \in Range(warned)
        /\ BothThreshold /\ HasCtrlIndex => CtrlIndexVoid \in Range(warned)
        /\ BothPolygon => warned = <<>>

\* C7: the warnings of a population returned by merge_populations are left's
\* warnings, then right's, then the marker "MERGED POPULATION".
C7_WarningsConcatenated ==
    Merged =>
        /\ ret.warnings = left0.warnings \o right0.warnings \o <<"MERGED POPULATION">>
        /\ "MERGED POPULATION" \in Range(ret.warnings)

\* two Polygon populations with different warnings have been merged
C7_Witness ==
    /\ Merged /\ BothPolygon
    /\ left0.warnings = <<"w1">> /\ right0.warnings = <<"w2">>
    /\ ret.warnings = <<"w1", "w2", "MERGED POPULATION">>

PreNames == {pre[i].population_name : i \in 1..Len(pre)}
AmbiguousName ==
    "If a new population name is not given the populations are expected to have the same population name"

\* the statement about the name of a many-way merge, for a given reading of
\* "a name is supplied"
NameOfMergedMany(supplied) ==
    /\ ~supplied /\ error = NoError
           => Cardinality(PreNames) = 1 /\ ret.population_name \in PreNames
    /\ ~supplied /\ Cardinality(PreNames) >= 2
           => /\ error = AmbiguousName /\ ret = NoPopulation
              /\ warned = <<>> /\ populations = pre
    /\ supplied /\ error = NoError => ret.population_name = new_name

\* C8: merge_multiple_populations without a name succeeds only on populations of
\* one name, which the result carries; on two or more names it fails before any
\* pairwise merge; with a name supplied the result carries that name.  A call
\* satisfies the statement if it does so with "supplied" read as "not None" or as
\* "neither None nor empty".
C8_NameOfMergedMany ==
    call = "merge_multiple_populations" =>
        NameOfMergedMany(new_name # None) \/ NameOfMergedMany(Truthy(new_name))

\* what the code does: None is checked against the populations' names, and a
\* result carries the supplied name unless that is None or empty, when it
\* carries the name of the first population
C8_NameOfMergedManyAsCoded ==
    call = "merge_multiple_populations" =>
        /\ NameOfMergedMany(new_name # None) \/ new_name = ""
        /\ error = NoError => ret.population_name = Or(new_name, pre[1].population_name)

----------------------------------------------------------------------------
(* Properties of the divergence cache (checked under SpecBatch). *)

cache == session.kde_cache

\* C9: between two runs of load_data no sample's density is fitted more than
\* once, and an estimate that is in the cache stays in it as it is until
\* load_data runs.
C9_InsertOnce ==
    /\ [](\A x \in SampleIds : session.fits[x] <= 1)
    /\ [][session'.last.op # "load_data" =>
             \A i \in 1..Len(cache) :
                 /\ cache[i].name \in Keys(session'.kde_cache)
                 /\ Lookup(session'.kde_cache, cache[i].name) = cache[i].q]_vars

\* a query with the tophat kernel has been answered from an estimate that was
\* fitted, once, by an earlier query with the gaussian kernel
C9_Witness ==
    /\ session.last.op = "calc_divergence" /\ session.last.error = NoError
    /\ session.last.kernel = "tophat"
    /\ \E i \in 1..Len(cache) :
         /\ cache[i].q.kernel = "gaussian"
         /\ session.fits[cache[i].name] = 1
         /\ \E j \in 1..Len(session.last.ret) : session.last.ret[j][1] = cache[i].name

\* C10: load_data leaves the cache empty, and a step of any other operation
\* keeps every key that is in the cache.
C10_InvalidatedOnlyByLoadData ==
    [][/\ session'.last.op = "load_data" => session'.kde_cache = <<>>
       /\ session'.last.op # "load_data" => Keys(cache) \subseteq Keys(session'.kde_cache)]_vars

\* load_data has emptied a cache that held the estimates of two samples
C10_Witness ==
    /\ session.last.op = "load_data"
    /\ Cardinality(session.last.removed) >= 2
    /\ cache = <<>>

----------------------------------------------------------------------------
(* Properties of the divergence queries (checked under SpecBatch). *)

\* the sample names of a list of (sample name, divergence) tuples, in order
TupleNames(tuples) == [i \in 1..Len(tuples) |-> tuples[i][1]]
\* the samples of the session that are not in the exclude list, in order
NonExcluded(sess, exclude) ==
    IF exclude = {None} THEN sess.sample_ids
    ELSE SelectSeq(sess.sample_ids, LAMBDA x : x \notin exclude)
NoDuplicates(names) == Cardinality(Range(names)) = Len(names)

\* C11: whatever queries came before and whatever the exclude list, a
\* divergence_matrix that completes has built one row for each non-excluded
\* sample, in order, and each row has one entry for each non-excluded sample, in
\* the same order.
C11_MatrixIsSquare ==
    [][\A exclude \in {{None}} \cup SUBSET SampleIds,
          kde_kernel \in Kernels, divergence_method \in Methods :
          (/\ session'.last.op = "divergence_matrix"
           /\ session'.last.error = NoError
           /\ session' = divergence_matrix(session, exclude, kde_kernel, divergence_method))
          => LET rows == session'.last.ret
                 samples == NonExcluded(session, exclude)
             IN  /\ [i \in 1..Len(rows) |-> rows[i].sample_id] = samples
                 /\ \A i \in 1..Len(rows) : TupleNames(rows[i].row) = samples]_vars

\* C12: whatever the cache holds, a calc_divergence that completes returns one
\* tuple for each loaded sample that is in comparisons, and no other tuple.  A
\* call satisfies the statement too if the one other tuple is the target's own.
C12_OneTuplePerComparison ==
    [][\A target_id \in SampleIds, comparisons \in SUBSET SampleIds,
          kde_kernel \in Kernels, divergence_method \in Methods :
          (/\ session'.last.op = "calc_divergence"
           /\ session'.last.error = NoError
           /\ session' = calc_divergence(session, target_id, comparisons,
                                         kde_kernel, divergence_method))
          => LET names == TupleNames(session'.last.ret)
                 named == Range(session.data) \cap comparisons
             IN  /\ NoDuplicates(names)
                 /\ Range(names) = named \/ Range(names) = named \cup {target_id}]_vars

\* C13: load_data returns the samples that have the root population, without an
\* exception, and a divergence_matrix over the session's samples (nothing
\* excluded, a valid method) of which two at least were loaded completes, with
\* one row for each loaded sample.
C13_FailedLoadIsExcluded ==
    [][/\ session'.last.op = "load_data"
          => /\ session'.last.error = NoError
             /\ session'.last.ret = LoadedSamples(session)
       /\ \A kde_kernel \in Kernels, divergence_method \in {"jsd", "kl", "hellinger"} :
            (/\ session'.last.op = "divergence_matrix"
             /\ Len(session.data) >= 2
             /\ session' = divergence_matrix(session, {None}, kde_kernel, divergence_method))
            => /\ session'.last.error = NoError
               /\ [i \in 1..Len(session'.last.ret) |-> session'.last.ret[i].sample_id]
                      = session.data]_vars

InsufficientDataError == "InsufficientDataError"

\* C14: a load_data that loads no sample ends in an InsufficientDataError and
\* returns nothing.
C14_EmptyLoadIsAnError ==
    (session.last.op = "load_data" /\ LoadedSamples(session) = <<>>)
        => session.last.error = InsufficientDataError

----------------------------------------------------------------------------
(* Properties of the pool of calc_divergence (checked under SpecPool). *)

AllWorkersDone == \A i \in 1..Len(pool.tasks) : pool.status[i] = "done"

\* C15, as stated: a step of a worker leaves the cache as it is, and the cache
\* changes only in a step taken when every worker of the call has completed
\* (the call's workers are those of the pool that the call has started or, in
\* the step that starts the pool, is starting).
C15_CacheWrittenAfterWorkers ==
    [][/\ (pool.pc = "mapping" /\ pool'.pc = "mapping") => session'.kde_cache = cache
       /\ session'.kde_cache # cache =>
            LET started == IF pool.pc = "idle" THEN pool' ELSE pool
            IN  \A i \in 1..Len(started.tasks) : started.status[i] = "done"]_vars

\* C15, amended: a step of a worker leaves the cache as it is; the cache changes
\* only in a step of the coordinating process, which is either the step that
\* starts the pool, adding the target's estimate and nothing else before any
\* worker exists, or the step taken after every worker has completed, adding
\* the estimates that the workers have returned.
C15_CacheWrittenByCoordinator ==
    [][/\ (pool.pc = "mapping" /\ pool'.pc = "mapping") => session'.kde_cache = cache
       /\ session'.kde_cache # cache =>
            \/ /\ pool.pc = "idle" /\ pool'.pc = "mapping"
               /\ \A i \in 1..Len(pool'.tasks) : pool'.status[i] = "queued"
               /\ Keys(session'.kde_cache) = Keys(cache) \cup {pool'.target_id}
            \/ /\ pool.pc = "mapping" /\ pool'.pc = "idle" /\ AllWorkersDone
               /\ Keys(session'.kde_cache) = Keys(cache) \cup Range(pool.tasks)]_vars

\* a call has returned whose target was cached before its pool started and
\* whose two workers' estimates were cached after both had completed
C15_Witness ==
    /\ pool.pc = "idle" /\ Len(pool.tasks) = 2
    /\ session.last.op = "calc_divergence" /\ session.last.error = NoError
    /\ Range(pool.tasks) \subseteq Keys(cache)
    /\ session.fits[pool.target_id] = 1

----------------------------------------------------------------------------
(* Properties of the numerical functions (checked under SpecFn). *)

Infinite(v) == v \in {"inf", "-inf"}
InUnitInterval(v) == v \in {"0", "(0,1)", "1"}
\* an array that is a density estimate of a sample: no value negative, not all zero
IsEstimate(a) == a \in Estimates /\ Sum(a) > 0

\* C16: jsd_divergence returns 1 and issues a warning if the library's value
\* is infinite, and returns the library's value otherwise.
C16_InfiniteClampedWithWarning ==
    fn.op = "jsd_divergence" =>
        /\ Infinite(jsd(fn.x, fn.y)) => (fn.ret = "1" /\ fn.warned # <<>>)
        /\ ~Infinite(jsd(fn.x, fn.y)) => fn.ret = jsd(fn.x, fn.y)

\* what the code does: the clamp and the pass-through, and no warning ever
C16_InfiniteClampedSilently ==
    fn.op = "jsd_divergence" =>
        /\ fn.ret = IF Infinite(jsd(fn.x, fn.y)) THEN "1" ELSE jsd(fn.x, fn.y)
        /\ fn.warned = <<>> /\ fn.error = NoError

\* C17: the jsd and hellinger values of two density estimates lie in [0,1].
C17_JsdAndHellingerInUnitInterval ==
    (fn.op \in {"jsd_divergence", "hellinger_dot"} /\ IsEstimate(fn.x) /\ IsEstimate(fn.y))
        => InUnitInterval(fn.ret)

\* what holds of the code: jsd of two density estimates lies in [0,1]
C17_JsdInUnitInterval ==
    (fn.op = "jsd_divergence" /\ IsEstimate(fn.x) /\ IsEstimate(fn.y))
        => InUnitInterval(fn.ret)

DegenerateDistributionError == "DegenerateDistributionError"

\* C18: kl_divergence of two density estimates of which the second is zero
\* where the first is positive ends in a DegenerateDistributionError.
C18_UndefinedKlFails ==
    (/\ fn.op = "kl_divergence" /\ IsEstimate(fn.x) /\ IsEstimate(fn.y)
     /\ \E i \in 1..GridN : fn.x[i] > 0 /\ fn.y[i] = 0)
        => fn.error = DegenerateDistributionError

\* C20: with bandwidth 'cross_val' and no bandwidth_search, a table whose 5th
\* and 95th percentile are both 0 is searched from 0.01 on, and 0 is not among
\* the bandwidths searched.
C20_LowerBoundFloored ==
    (/\ fn.op = "kde_multivariant" /\ fn.error = NoError
     /\ fn.bandwidth = StrArg("cross_val") /\ fn.bandwidth_search = NoList
     /\ np_quantile(fn.x, 5) = 0 /\ np_quantile(fn.x, 95) = 0)
        => fn.search[1] = 1 /\ 0 \notin fn.candidates

----------------------------------------------------------------------------
(* Properties of the reference selection (checked under SpecNorm). *)

\* the distances of the example: A is at distance 1 of B and of C, B at 5 of C
ExampleDistance ==
    [a \in Range(ExperimentSamples), b \in Range(ExperimentSamples) |->
        IF a = b THEN 0 ELSE IF "A" \in {a, b} THEN 1 ELSE 5]

\* C19: after calculate_reference_sample the reference sample is a sample of
\* the experiment of which the mean distance to the other samples is the least
\* of all samples; it is A for the distances of the example.
C19_ReferenceHasMinimumMeanDistance ==
    (normalise.constructed /\ normalise.last.op = "calculate_reference_sample")
        => /\ normalise.last.error = NoError
           /\ normalise.reference_sample \in Range(normalise.experiment.samples)
           /\ \A s \in Range(normalise.experiment.samples) :
                  TotalDistance(normalise.experiment, normalise.reference_sample)
                      <= TotalDistance(normalise.experiment, s)
           /\ normalise.experiment.distance = ExampleDistance
                  => normalise.reference_sample = "A"

\* the reference sample of the example has been calculated
C19_Witness ==
    /\ normalise.constructed /\ normalise.last.op = "calculate_reference_sample"
    /\ normalise.experiment.distance = ExampleDistance
    /\ normalise.reference_sample = "A"

\* the least and the greatest value of column j of a table
ColumnMin(t, j) == CHOOSE v \in {t[i][j] : i \in 1..Len(t)} : \A i \in 1..Len(t) : v <= t[i][j]
ColumnMax(t, j) == CHOOSE v \in {t[i][j] : i \in 1..Len(t)} : \A i \in 1..Len(t) : v >= t[i][j]
\* coordinate j of the points at which the estimate was evaluated
Coordinates(estimate, j) == [i \in 1..Len(estimate) |-> estimate[i].density_at[j]]
\* kde_multivariant has returned an estimate, after a search of positive
\* bandwidths if any
Estimated ==
    /\ fn.op = "kde_multivariant" /\ fn.error = NoError
    /\ \A c \in fn.candidates : c > 0

\* C21: with x_grid_n = n the estimate has n values, and the points at which it
\* was evaluated run, in each dimension, from the least to the greatest value of
\* that column of the table in n equal steps; with x_grid_n = None the estimate
\* has one value for each row of the table, evaluated at that row.
C21_GridSpansEachDimension ==
    Estimated =>
        IF "n" \in DOMAIN fn.x_grid_n
        THEN /\ Len(fn.estimate) = fn.x_grid_n.n
             /\ \A j \in 1..Len(fn.table[1]) :
                    Coordinates(fn.estimate, j)
                        = linspace(ColumnMin(fn.table, j), ColumnMax(fn.table, j), fn.x_grid_n.n)
        ELSE /\ Len(fn.estimate) = Len(fn.table)
             /\ \A i \in 1..Len(fn.table) : fn.estimate[i].density_at = fn.table[i]

\* what the code does: the same, but every dimension of the grid runs from the
\* least to the greatest value of the whole table
C21_GridSpansWholeTable ==
    Estimated =>
        IF "n" \in DOMAIN fn.x_grid_n
        THEN /\ Len(fn.estimate) = fn.x_grid_n.n
             /\ \A j \in 1..Len(fn.table[1]) :
                    Coordinates(fn.estimate, j)
                        = linspace(np_amin(fn.table), np_amax(fn.table), fn.x_grid_n.n)
        ELSE /\ Len(fn.estimate) = Len(fn.table)
             /\ \A i \in 1..Len(fn.table) : fn.estimate[i].density_at = fn.table[i]

----------------------------------------------------------------------------
(* The kernel of the estimates behind a divergence (checked under SpecBatch). *)

\* C22: every divergence that a calc_divergence with kernel K returns is that
\* of two estimates fitted with kernel K.
C22_DivergenceOfTheCallsKernel ==
    (session.last.op = "calc_divergence" /\ session.last.error = NoError)
        => \A i \in 1..Len(session.last.ret) :
               /\ session.last.ret[i][2].p.kernel = session.last.kernel
               /\ session.last.ret[i][2].q.kernel = session.last.kernel

\* what holds of the code: every divergence returned is that of the cached
\* estimates of the target and of the sample it is returned for
C22_DivergenceOfTheCachedEstimates ==
    (session.last.op = "calc_divergence" /\ session.last.error = NoError)
        => \A i \in 1..Len(session.last.ret) :
               /\ session.last.ret[i][2].q = Lookup(cache, session.last.ret[i][1])
               /\ session.last.ret[i][2].p \in {cache[j].q : j \in 1..Len(cache)}

----------------------------------------------------------------------------
(* The arguments of a merge after the call (checked under Spec). *)

\* the attributes of a population that a merge is to leave alone
Kept(p) == <<p.population_name, p.index, p.clusters, p.warnings, p.geom>>

\* C23: after merge_populations and after merge_multiple_populations the name,
\* the index, the clusters, the warnings and the geometry of every argument are
\* what they were before the call.
C23_InputsUnchanged ==
    call # "none" => \A i \in 1..Len(populations) : Kept(populations[i]) = Kept(pre[i])

\* what holds of the code: every argument but the first is as it was, and the
\* first differs at most in its clusters, which the Threshold path empties, and
\* in its name, which merge_multiple_populations sets on a list of one
C23_InputsUnchangedButTheFirst ==
    call # "none" =>
        /\ \A i \in 2..Len(populations) : populations[i] = pre[i]
        /\ Len(populations) >= 1 =>
             /\ [populations[1] EXCEPT !.clusters = <<>>, !.population_name = None]
                    = [pre[1] EXCEPT !.clusters = <<>>, !.population_name = None]
             /\ populations[1].clusters # pre[1].clusters
                    => populations[1].geom.type = "ThresholdGeom" /\ populations[1].clusters = <<>>
             /\ populations[1].population_name # pre[1].population_name
                    => call = "merge_multiple_populations" /\ Len(populations) = 1

----------------------------------------------------------------------------
(* The guards of calibrate and normalise_and_save (checked under SpecNorm). *)

\* the reference sample is set and is a sample of the experiment
ValidReference(self) ==
    self.reference_sample # None /\ self.reference_sample \in Range(self.experiment.samples)

\* C24: a step fits the calibrator only if the reference sample is set and is a
\* sample of the experiment, and writes normalised data only if the calibrator
\* holds a model; a step that does not fit leaves the fitted target as it is, a
\* step that does not write leaves the saved data as it is; calibrate without a
\* valid reference sample and normalise_and_save without a model return
\* normally and change neither the model nor the saved data.
C24_FitAndSaveAreGuarded ==
    [][LET l == normalise'.last
       IN  /\ l.fitted => ValidReference(normalise) /\ normalise'.target = normalise.reference_sample
           /\ l.saved => normalise'.model # None
           /\ ~l.fitted => /\ normalise'.target = normalise.target
                           /\ normalise'.model = normalise.model \/ l.op = "load_model"
           /\ ~l.saved => normalise'.norm = normalise.norm
           /\ (l.op = "calibrate" /\ ~ValidReference(normalise))
                  => /\ l.error = NoError /\ ~l.fitted /\ ~l.saved
                     /\ normalise'.model = normalise.model
           /\ (l.op = "normalise_and_save" /\ normalise.model = None)
                  => l.error = NoError /\ ~l.saved]_vars

\* calibrate(save=True) has fitted the calibrator to the reference sample, a
\* sample of the experiment, and has written the normalised data
C24_Witness ==
    /\ normalise.constructed /\ normalise.last.op = "calibrate"
    /\ normalise.last.fitted /\ normalise.last.saved
    /\ ValidReference(normalise) /\ normalise.target = normalise.reference_sample
    /\ normalise.model = "fitted" /\ normalise.norm = "MMD-ResNet"

============================================================================
